---- MODULE Spec2Model ----
(***************************************************************************)
(* A model of rust-osero-for-study: the Board engine (src/game/board.rs),  *)
(* Player (src/game/player.rs) and the driver loop of main (src/main.rs).  *)
(*                                                                         *)
(* The specifications share the variables:                                 *)
(*   BoardSpec  a caller of the Board API that calls make_move with        *)
(*              arbitrary arguments, on Board::new() or after one of two   *)
(*              recorded openings played from it;                          *)
(*   Spec       the driver loop of main, reading lines from the terminal;  *)
(*   GridSpec   the top of a driver iteration on any value of Board, drawn *)
(*              from a bounded family of grids;                            *)
(*   LiveSpec   the driver with a user who, among refused lines, enters    *)
(*              the moves of a complete game, under fairness.              *)
(***************************************************************************)
EXTENDS Integers, Sequences, FiniteSets

\* ------------------------------------------------------------------ bounds

\* BoardSpec: the caller makes at most this many successful make_move calls
\* after its opening.
MaxMoves == 2

\* Spec: the free-form lines offered to read_line hold at most this many tokens.
MaxTokens == 3

\* GridSpec: the patch laid on a grid is at most this many cells long.
MaxRun == 2

\* --------------------------------------------------------------- constants

\* The side of the grid: cells: [[Cell; 8]; 8].
N == 8

\* i32::MAX, the largest value str::parse::<i32> accepts.
I32Max == 2147483647

\* ------------------------------------------------------------------ Player

Black == "Black"
White == "White"
Player == {Black, White}

\* Mutant of opponent: both arms of the match return White.
opponent_both_white(p) == IF p = Black THEN White ELSE White

\* match self { Player::Black => Player::White, Player::White => Player::Black }
opponent(p) == IF p = Black THEN White ELSE Black

\* -------------------------------------------------------------------- Cell

\* Cell::Empty, and Cell::Occupied(p) encoded by its payload.
Empty == "Empty"
Occupied(p) == p
Cell == {Empty} \cup {Occupied(p) : p \in Player}

Idx == 0..(N - 1)

\* ------------------------------------------------------------------- Board

\* Board::new(): an empty grid with the four centre stones.
new ==
  [r \in Idx |-> [c \in Idx |->
     IF (r = 3 /\ c = 3) \/ (r = 4 /\ c = 4) THEN Occupied(White)
     ELSE IF (r = 3 /\ c = 4) \/ (r = 4 /\ c = 3) THEN Occupied(Black)
     ELSE Empty]]

\* Mutant of Dirs: the loops written with the exclusive ranges -1..1, which
\* leave out dr = 1 and dc = 1.
DirsExclusive == << <<-1, -1>>, <<-1, 0>>, << 0, -1>> >>

\* The (dr, dc) pairs in the order of the nested loops
\* "for dr in -1..=1 { for dc in -1..=1 { if dr == 0 && dc == 0 { continue } .."
Dirs ==
  << <<-1, -1>>, <<-1, 0>>, <<-1, 1>>,
     << 0, -1>>,            << 0, 1>>,
     << 1, -1>>, << 1, 0>>, << 1, 1>> >>

\* The loop condition of both walks: nr >= 0 && nr < 8 && nc >= 0 && nc < 8.
InGrid(nr, nc) == nr >= 0 /\ nr < N /\ nc >= 0 /\ nc < N

\* Mutant of can_flip_walk: a run of opponent stones that reaches the edge of
\* the grid counts as captured (the trailing false written as count > 0).
RECURSIVE can_flip_walk_edge(_, _, _, _, _, _, _)
can_flip_walk_edge(b, nr, nc, dr, dc, player, count) ==
  IF ~InGrid(nr, nc) THEN count > 0
  ELSE IF b[nr][nc] = Empty THEN FALSE
  ELSE IF b[nr][nc] = Occupied(player) THEN count > 0
  ELSE can_flip_walk_edge(b, nr + dr, nc + dc, dr, dc, player, count + 1)

\* Mutant of can_flip_walk: reaching the player's own stone is a capture
\* whatever the count (count >= 0 for count > 0).
RECURSIVE can_flip_walk_adjacent(_, _, _, _, _, _, _)
can_flip_walk_adjacent(b, nr, nc, dr, dc, player, count) ==
  IF ~InGrid(nr, nc) THEN FALSE
  ELSE IF b[nr][nc] = Empty THEN FALSE
  ELSE IF b[nr][nc] = Occupied(player) THEN count >= 0
  ELSE can_flip_walk_adjacent(b, nr + dr, nc + dc, dr, dc, player, count + 1)

\* The while loop of can_flip_in_direction, entered at (nr, nc) with `count`
\* opponent stones already traversed.
RECURSIVE can_flip_walk(_, _, _, _, _, _, _)
can_flip_walk(b, nr, nc, dr, dc, player, count) ==
  IF ~InGrid(nr, nc) THEN FALSE
  ELSE IF b[nr][nc] = Empty THEN FALSE
  ELSE IF b[nr][nc] = Occupied(player) THEN count > 0
  ELSE can_flip_walk(b, nr + dr, nc + dc, dr, dc, player, count + 1)

can_flip_in_direction(b, r, c, dr, dc, player) ==
  can_flip_walk(b, r + dr, c + dc, dr, dc, player, 0)

\* Mutant of valid_scan: the loop stops one direction early, never testing
\* (1, 1).
RECURSIVE valid_scan_short(_, _, _, _, _)
valid_scan_short(b, r, c, player, i) ==
  IF i >= Len(Dirs) THEN FALSE
  ELSE IF can_flip_in_direction(b, r, c, Dirs[i][1], Dirs[i][2], player) THEN TRUE
  ELSE valid_scan_short(b, r, c, player, i + 1)

\* The direction loop of is_valid_move from the i-th direction on, returning
\* at the first direction that can flip.
RECURSIVE valid_scan(_, _, _, _, _)
valid_scan(b, r, c, player, i) ==
  IF i > Len(Dirs) THEN FALSE
  ELSE IF can_flip_in_direction(b, r, c, Dirs[i][1], Dirs[i][2], player) THEN TRUE
  ELSE valid_scan(b, r, c, player, i + 1)

\* Mutant of is_valid_move: every Empty cell of the grid is legal, the
\* direction loop is missing.
is_valid_move_any_empty(b, r, c, player) ==
  IF r < 0 \/ r >= N \/ c < 0 \/ c >= N THEN FALSE
  ELSE IF b[r][c] # Empty THEN FALSE
  ELSE TRUE

\* Mutant of is_valid_move: the test for an Occupied target is missing.
is_valid_move_no_occupied_test(b, r, c, player) ==
  IF r < 0 \/ r >= N \/ c < 0 \/ c >= N THEN FALSE
  ELSE valid_scan(b, r, c, player, 1)

is_valid_move(b, r, c, player) ==
  IF r < 0 \/ r >= N \/ c < 0 \/ c >= N THEN FALSE
  ELSE IF b[r][c] # Empty THEN FALSE
  ELSE valid_scan(b, r, c, player, 1)

\* Mutant of flip_walk: a captured stone is taken off the grid instead of
\* changing owner.
RECURSIVE flip_walk_clears(_, _, _, _, _, _)
flip_walk_clears(b, nr, nc, dr, dc, player) ==
  IF ~InGrid(nr, nc) THEN b
  ELSE IF b[nr][nc] = Occupied(player) THEN b
  ELSE IF b[nr][nc] = Empty THEN b
  ELSE flip_walk_clears([b EXCEPT ![nr][nc] = Empty],
                        nr + dr, nc + dc, dr, dc, player)

\* The while loop of flip_in_direction, entered at (nr, nc): the grid after it.
RECURSIVE flip_walk(_, _, _, _, _, _)
flip_walk(b, nr, nc, dr, dc, player) ==
  IF ~InGrid(nr, nc) THEN b
  ELSE IF b[nr][nc] = Occupied(player) THEN b
  ELSE IF b[nr][nc] = Empty THEN b
  ELSE flip_walk([b EXCEPT ![nr][nc] = Occupied(player)],
                 nr + dr, nc + dc, dr, dc, player)

flip_in_direction(b, r, c, dr, dc, player) ==
  flip_walk(b, r + dr, c + dc, dr, dc, player)

\* Mutant of flip_scan: every direction is flipped without the capture test.
RECURSIVE flip_scan_untested(_, _, _, _, _)
flip_scan_untested(b, r, c, player, i) ==
  IF i > Len(Dirs) THEN b
  ELSE flip_scan_untested(
         flip_in_direction(b, r, c, Dirs[i][1], Dirs[i][2], player),
         r, c, player, i + 1)

\* Mutant of flip_scan: the loop is left after the first direction flipped.
RECURSIVE flip_scan_first_only(_, _, _, _, _)
flip_scan_first_only(b, r, c, player, i) ==
  IF i > Len(Dirs) THEN b
  ELSE IF can_flip_in_direction(b, r, c, Dirs[i][1], Dirs[i][2], player)
       THEN flip_in_direction(b, r, c, Dirs[i][1], Dirs[i][2], player)
       ELSE flip_scan_first_only(b, r, c, player, i + 1)

\* The direction loop of make_move from the i-th direction on: the capture
\* test is evaluated on the grid as modified so far.
RECURSIVE flip_scan(_, _, _, _, _)
flip_scan(b, r, c, player, i) ==
  IF i > Len(Dirs) THEN b
  ELSE LET dr == Dirs[i][1]
           dc == Dirs[i][2]
           b2 == IF can_flip_in_direction(b, r, c, dr, dc, player)
                 THEN flip_in_direction(b, r, c, dr, dc, player)
                 ELSE b
       IN flip_scan(b2, r, c, player, i + 1)

\* Mutant of make_move: the stone is placed before the move is validated.
make_move_place_first(b, r, c, player) ==
  LET placed == IF InGrid(r, c) /\ b[r][c] = Empty
                THEN [b EXCEPT ![r][c] = Occupied(player)]
                ELSE b
  IN IF ~is_valid_move(b, r, c, player)
     THEN [ret |-> FALSE, cells |-> placed]
     ELSE [ret |-> TRUE, cells |-> flip_scan(placed, r, c, player, 1)]

\* Mutant of make_move: the stones are flipped but the target cell is never
\* set.
make_move_no_placement(b, r, c, player) ==
  IF ~is_valid_move(b, r, c, player)
  THEN [ret |-> FALSE, cells |-> b]
  ELSE [ret |-> TRUE, cells |-> flip_scan(b, r, c, player, 1)]

\* make_move: the returned bool and the grid after the call.
make_move(b, r, c, player) ==
  IF ~is_valid_move(b, r, c, player)
  THEN [ret |-> FALSE, cells |-> b]
  ELSE [ret |-> TRUE,
        cells |-> flip_scan([b EXCEPT ![r][c] = Occupied(player)], r, c, player, 1)]

\* The inner loop of has_valid_move over row r from column c on, returning
\* at the first legal cell.
RECURSIVE has_valid_row(_, _, _, _)
has_valid_row(b, player, r, c) ==
  IF c >= N THEN FALSE
  ELSE IF is_valid_move(b, r, c, player) THEN TRUE
  ELSE has_valid_row(b, player, r, c + 1)

\* Mutant of has_valid_scan: the row loop written as 0..7, which never scans
\* the last row.
RECURSIVE has_valid_scan_short(_, _, _)
has_valid_scan_short(b, player, r) ==
  IF r >= N - 1 THEN FALSE
  ELSE IF has_valid_row(b, player, r, 0) THEN TRUE
  ELSE has_valid_scan_short(b, player, r + 1)

\* The outer loop of has_valid_move from row r on.
RECURSIVE has_valid_scan(_, _, _)
has_valid_scan(b, player, r) ==
  IF r >= N THEN FALSE
  ELSE IF has_valid_row(b, player, r, 0) THEN TRUE
  ELSE has_valid_scan(b, player, r + 1)

has_valid_move(b, player) == has_valid_scan(b, player, 0)

\* The inner loop of count_stones: what the cells of row r from column c on
\* add to the counters (black, white).
RECURSIVE count_row(_, _, _)
count_row(b, r, c) ==
  IF c >= N THEN <<0, 0>>
  ELSE LET rest == count_row(b, r, c + 1)
       IN IF b[r][c] = Occupied(Black) THEN <<rest[1] + 1, rest[2]>>
          ELSE IF b[r][c] = Occupied(White) THEN <<rest[1], rest[2] + 1>>
          ELSE rest

\* The outer loop of count_stones: what the rows from r on add to the
\* counters (black, white).
RECURSIVE count_scan(_, _)
count_scan(b, r) ==
  IF r >= N THEN <<0, 0>>
  ELSE LET row  == count_row(b, r, 0)
           rest == count_scan(b, r + 1)
       IN <<row[1] + rest[1], row[2] + rest[2]>>

\* Mutant of count_stones: the tuple is returned as (white, black).
count_stones_swapped(b) ==
  <<count_scan(b, 0)[2], count_scan(b, 0)[1]>>

count_stones(b) == count_scan(b, 0)

\* --------------------------------------------------- the cells indexed

\* Each operator gives the (row, column) pairs at which the code evaluates
\* self.cells[.. as usize][.. as usize]; an index outside 0..7 would panic.

\* Mutant of can_flip_indexed: the loop condition without its lower bounds
\* (nr < 8 && nc < 8); the walk ends at the index that panics.
RECURSIVE can_flip_indexed_no_lower(_, _, _, _, _, _)
can_flip_indexed_no_lower(b, nr, nc, dr, dc, player) ==
  IF ~(nr < N /\ nc < N) THEN {}
  ELSE {<<nr, nc>>} \cup
       (IF InGrid(nr, nc) /\ b[nr][nc] = Occupied(opponent(player))
        THEN can_flip_indexed_no_lower(b, nr + dr, nc + dc, dr, dc, player)
        ELSE {})

\* The while loop of can_flip_in_direction entered at (nr, nc).
RECURSIVE can_flip_indexed(_, _, _, _, _, _)
can_flip_indexed(b, nr, nc, dr, dc, player) ==
  IF ~InGrid(nr, nc) THEN {}
  ELSE {<<nr, nc>>} \cup
       (IF b[nr][nc] = Empty \/ b[nr][nc] = Occupied(player) THEN {}
        ELSE can_flip_indexed(b, nr + dr, nc + dc, dr, dc, player))

\* The while loop of flip_in_direction entered at (nr, nc); the cell it
\* writes is the cell it has just read.
RECURSIVE flip_indexed(_, _, _, _, _, _)
flip_indexed(b, nr, nc, dr, dc, player) ==
  IF ~InGrid(nr, nc) THEN {}
  ELSE {<<nr, nc>>} \cup
       (IF b[nr][nc] = Occupied(player) \/ b[nr][nc] = Empty THEN {}
        ELSE flip_indexed(b, nr + dr, nc + dc, dr, dc, player))

\* The direction loop of is_valid_move from the i-th direction on.
RECURSIVE valid_scan_indexed(_, _, _, _, _)
valid_scan_indexed(b, r, c, player, i) ==
  IF i > Len(Dirs) THEN {}
  ELSE can_flip_indexed(b, r + Dirs[i][1], c + Dirs[i][2],
                        Dirs[i][1], Dirs[i][2], player)
       \cup (IF can_flip_in_direction(b, r, c, Dirs[i][1], Dirs[i][2], player)
             THEN {}
             ELSE valid_scan_indexed(b, r, c, player, i + 1))

is_valid_move_indexed(b, r, c, player) ==
  IF r < 0 \/ r >= N \/ c < 0 \/ c >= N THEN {}
  ELSE {<<r, c>>} \cup
       (IF b[r][c] # Empty THEN {} ELSE valid_scan_indexed(b, r, c, player, 1))

\* The direction loop of make_move from the i-th direction on.
RECURSIVE flip_scan_indexed(_, _, _, _, _)
flip_scan_indexed(b, r, c, player, i) ==
  IF i > Len(Dirs) THEN {}
  ELSE LET dr == Dirs[i][1]
           dc == Dirs[i][2]
           can == can_flip_in_direction(b, r, c, dr, dc, player)
           b2 == IF can THEN flip_in_direction(b, r, c, dr, dc, player) ELSE b
       IN can_flip_indexed(b, r + dr, c + dc, dr, dc, player)
          \cup (IF can THEN flip_indexed(b, r + dr, c + dc, dr, dc, player) ELSE {})
          \cup flip_scan_indexed(b2, r, c, player, i + 1)

make_move_indexed(b, r, c, player) ==
  is_valid_move_indexed(b, r, c, player)
  \cup (IF ~is_valid_move(b, r, c, player) THEN {}
        ELSE {<<r, c>>}
             \cup flip_scan_indexed([b EXCEPT ![r][c] = Occupied(player)],
                                    r, c, player, 1))

\* has_valid_move calls is_valid_move for r, c in 0..8 until one is legal.
has_valid_move_indexed(b, player) ==
  UNION { is_valid_move_indexed(b, r, c, player) :
            r \in 0..(N - 1), c \in 0..(N - 1) }

\* count_stones reads self.cells[r][c] for r, c in 0..8.
count_stones_indexed == (0..(N - 1)) \X (0..(N - 1))

\* ------------------------------------------------------------ input (main)

\* The decimal digits a token may hold, with their values.
DigitVal ==
  [ch \in {"0", "1", "2", "3", "4", "5", "6", "7", "8", "9"} |->
     CASE ch = "0" -> 0 [] ch = "1" -> 1 [] ch = "2" -> 2 [] ch = "3" -> 3
       [] ch = "4" -> 4 [] ch = "5" -> 5 [] ch = "6" -> 6 [] ch = "7" -> 7
       [] ch = "8" -> 8 [] ch = "9" -> 9]

\* The digit loop of i32::from_str: the digits are accumulated left to right,
\* upwards for a positive number and downwards for a negative one, and a
\* step that would leave i32 (checked_mul, checked_add, checked_sub) is an Err,
\* as is a character that is not a digit.
RECURSIVE digits_value(_, _, _)
digits_value(ds, acc, neg) ==
  IF ds = <<>> THEN [ok |-> TRUE, val |-> acc]
  ELSE IF Head(ds) \notin DOMAIN DigitVal THEN [ok |-> FALSE, val |-> 0]
  ELSE LET d == DigitVal[Head(ds)]
           q == I32Max \div 10
           m == I32Max % 10
       IN IF neg
          THEN IF acc < 0 - q \/ (acc = 0 - q /\ d > m + 1)
               THEN [ok |-> FALSE, val |-> 0]
               ELSE digits_value(Tail(ds), acc * 10 - d, neg)
          ELSE IF acc > q \/ (acc = q /\ d > m)
               THEN [ok |-> FALSE, val |-> 0]
               ELSE digits_value(Tail(ds), acc * 10 + d, neg)

\* s.parse::<i32>(): an optional sign, then at least one digit and only
\* digits, the value within i32; anything else is an Err.
parse(tok) ==
  LET signed == tok # <<>> /\ Head(tok) \in {"-", "+"}
      neg    == tok # <<>> /\ Head(tok) = "-"
      ds     == IF signed THEN Tail(tok) ELSE tok
  IN IF ds = <<>> THEN [ok |-> FALSE, val |-> 0]
     ELSE digits_value(ds, 0, neg)

\* input.split_whitespace().filter_map(|s| s.parse().ok()).collect():
\* the tokens that parse, in order; the others are dropped.
RECURSIVE coords_of(_)
coords_of(line) ==
  IF line = <<>> THEN <<>>
  ELSE LET p == parse(Head(line))
       IN IF p.ok THEN <<p.val>> \o coords_of(Tail(line))
          ELSE coords_of(Tail(line))

\* Mutant of invalid_input: only a line with too few numbers is rejected.
invalid_input_too_few(coords) == Len(coords) < 2

\* if coords.len() != 2 { "Invalid input. ..."; continue }
invalid_input(coords) == Len(coords) # 2

\* ---------------------------------------------------- what the user types

\* The token of a coordinate in 0..9.
Tok(n) == << CHOOSE ch \in DOMAIN DigitVal : DigitVal[ch] = n >>

\* Two games, as the cells played by Black and White in turn from
\* Board::new(): a nine-move game that ends with White wiped out, and an
\* eight-move game after which Black has no move and White has one.
Games ==
  << << <<5, 4>>, <<3, 5>>, <<2, 4>>, <<5, 5>>, <<4, 6>>,
        <<5, 3>>, <<6, 4>>, <<4, 5>>, <<4, 2>> >>,
     << <<3, 2>>, <<2, 2>>, <<5, 4>>, <<3, 1>>, <<3, 0>>,
        <<4, 0>>, <<1, 1>>, <<2, 0>> >> >>

\* The sets of cells a run's user picks moves from: book 1 holds the cells
\* of the first game, book 2 those of the second and two cells beyond it.
Book ==
  << {Games[1][i] : i \in DOMAIN Games[1]},
     {Games[2][i] : i \in DOMAIN Games[2]} \cup {<<3, 5>>, <<1, 3>>} >>

\* The grid after the moves of `game` from grid b, `player` moving first.
RECURSIVE replay(_, _, _)
replay(b, player, game) ==
  IF game = <<>> THEN b
  ELSE replay(make_move(b, Head(game)[1], Head(game)[2], player).cells,
              opponent(player), Tail(game))

\* The openings a caller of the Board API starts from: none, the first game
\* up to its last move but one, and the second game.
Opening == << <<>>, SubSeq(Games[1], 1, Len(Games[1]) - 1), Games[2] >>
Start == [k \in DOMAIN Opening |-> replay(new, Black, Opening[k])]

BookLines(k) == { <<Tok(rc[1]), Tok(rc[2])>> : rc \in Book[k] }

\* Free-form lines: every sequence of at most MaxTokens of these tokens.
FreeTokens == { <<"4">>, <<"x">> }
FreeLines == UNION { [1..n -> FreeTokens] : n \in 0..MaxTokens }

\* Lines with signs, out-of-range coordinates and a token that overflows i32.
OddLines ==
  { << <<"-", "1">>, <<"3">> >>,
    << <<"2">>, <<"8">> >>,
    << <<"+", "5">>, <<"4">> >>,
    << <<"5">>, <<"2", "1", "4", "7", "4", "8", "3", "6", "4", "8">>, <<"4">> >>,
    << <<"-", "2", "1", "4", "7", "4", "8", "3", "6", "4", "8">>, <<"9">> >>,
    << <<"-">>, <<"5">>, <<"4">> >>,
    << <<"5">>, <<"x">>, <<"4">> >> }

\* The lines read_line may return in a run whose user follows book k.
Lines == [k \in DOMAIN Book |-> BookLines(k) \cup FreeLines \cup OddLines]

\* ------------------------------------------------------------------- state

VARIABLES
  cells,           \* Board.cells
  current_player,  \* main: current_player
  input,           \* main: the line read in this iteration, as its tokens
  result,          \* main: the winner line printed after the loop
  pc,              \* where the program is
  book,            \* Spec: the book this run's user picks from;
                   \* BoardSpec: the opening this run's caller started from
  moves,           \* history: the make_move calls that returned true
  step,            \* history: the latest step taken
  last,            \* history: the make_move call of the latest step, if any
  prev,            \* history: cells before the latest step
  prev_player      \* history: current_player before the latest step

vars == <<cells, current_player, input, result, pc, book, moves,
          step, last, prev, prev_player>>

NoCall == [called |-> FALSE, r |-> 0, c |-> 0, player |-> Black, ret |-> FALSE]
Called(r, c, p, ret) == [called |-> TRUE, r |-> r, c |-> c, player |-> p, ret |-> ret]

\* The arguments a caller of the Board API passes: in range and just outside.
Coords == (0 - 1)..N

\* ----------------------------------------------------- the Board API caller

BoardInit ==
  /\ book \in DOMAIN Opening
  /\ cells = Start[book]
  /\ current_player = Black
  /\ input = <<>>
  /\ result = "none"
  /\ pc = "caller"
  /\ moves = Len(Opening[book])
  /\ step = "init"
  /\ last = NoCall
  /\ prev = cells
  /\ prev_player = Black

\* board.make_move(r, c, player), any arguments.
Call(r, c, player) ==
  /\ pc = "caller"
  /\ moves < Len(Opening[book]) + MaxMoves
  /\ LET m == make_move(cells, r, c, player)
     IN /\ cells' = m.cells
        /\ last' = Called(r, c, player, m.ret)
        /\ moves' = IF m.ret THEN moves + 1 ELSE moves
  /\ prev' = cells
  /\ step' = "call"
  /\ pc' = "returned"
  /\ UNCHANGED <<current_player, input, result, book, prev_player>>

\* The caller has used the returned bool and goes on.
Return ==
  /\ pc = "returned"
  /\ pc' = "caller"
  /\ step' = "return"
  /\ last' = NoCall
  /\ prev' = cells
  /\ UNCHANGED <<cells, current_player, input, result, book, moves, prev_player>>

BoardNext ==
  \/ \E r \in Coords, c \in Coords, player \in Player : Call(r, c, player)
  \/ Return

BoardSpec == BoardInit /\ [][BoardNext]_vars

\* ------------------------------------------------------- the driver (main)

Init ==
  /\ cells = new
  /\ current_player = Black
  /\ input = <<>>
  /\ result = "none"
  /\ pc = "loop"
  /\ book \in DOMAIN Book
  /\ moves = 0
  /\ step = "init"
  /\ last = NoCall
  /\ prev = new
  /\ prev_player = Black

\* Mutant of GameOver: the break written as continue.
GameOverContinues ==
  /\ step' = "break"
  /\ UNCHANGED <<cells, current_player, input, pc>>

\* "No moves left for both players. Game over.": break.
GameOver ==
  /\ pc' = "over"
  /\ step' = "break"
  /\ UNCHANGED <<cells, current_player, input>>

\* Mutant of Pass: the turn is announced as skipped but stays with the player.
PassKeepsTurn ==
  /\ step' = "pass"
  /\ UNCHANGED <<cells, current_player, input, pc>>

\* "No moves left for <player>. Skipping turn.": the turn goes to the
\* opponent, continue.
Pass ==
  /\ current_player' = opponent(current_player)
  /\ step' = "pass"
  /\ UNCHANGED <<cells, input, pc>>

\* The prompt is printed, input = String::new(), and the program waits in
\* read_line.
Prompt ==
  /\ input' = <<>>
  /\ pc' = "read"
  /\ step' = "prompt"
  /\ UNCHANGED <<cells, current_player>>

\* Mutant of LoopTop: the loop is left as soon as the current player has no
\* move, without asking whether the opponent has one.
LoopTopNoOpponentTest ==
  /\ pc = "loop"
  /\ IF ~has_valid_move(cells, current_player) THEN GameOver ELSE Prompt
  /\ last' = NoCall
  /\ prev' = cells
  /\ prev_player' = current_player
  /\ UNCHANGED <<result, book, moves>>

\* Mutant of LoopTop: the turn of a player without a move is skipped without
\* asking whether the opponent has one; the loop is never left.
LoopTopAlwaysSkips ==
  /\ pc = "loop"
  /\ IF ~has_valid_move(cells, current_player) THEN Pass ELSE Prompt
  /\ last' = NoCall
  /\ prev' = cells
  /\ prev_player' = current_player
  /\ UNCHANGED <<result, book, moves>>

\* The top of an iteration, up to the break, the continue or the read_line:
\*   if !has_valid_move(current) { if !has_valid_move(opponent) { break }
\*                                 ...; continue }
LoopTop ==
  /\ pc = "loop"
  /\ IF ~has_valid_move(cells, current_player)
     THEN IF ~has_valid_move(cells, opponent(current_player))
          THEN GameOver
          ELSE Pass
     ELSE Prompt
  /\ last' = NoCall
  /\ prev' = cells
  /\ prev_player' = current_player
  /\ UNCHANGED <<result, book, moves>>

\* read_line returns `line`; the rest of the iteration: the line is parsed,
\* rejected unless it gives two coordinates, else make_move is called and on
\* success the turn goes to the opponent.
ReadLine(line) ==
  /\ pc = "read"
  /\ input' = line
  /\ pc' = "loop"
  /\ prev' = cells
  /\ prev_player' = current_player
  /\ LET coords == coords_of(line)
     IN IF invalid_input(coords)
        THEN /\ step' = "reject"
             /\ last' = NoCall
             /\ UNCHANGED <<cells, current_player, moves>>
        ELSE LET m == make_move(cells, coords[1], coords[2], current_player)
             IN /\ step' = "move"
                /\ last' = Called(coords[1], coords[2], current_player, m.ret)
                /\ cells' = m.cells
                /\ current_player' = IF m.ret THEN opponent(current_player)
                                     ELSE current_player
                /\ moves' = IF m.ret THEN moves + 1 ELSE moves
  /\ UNCHANGED <<result, book>>

\* After the loop: the final score is counted and the winner printed.
Announce ==
  /\ pc = "over"
  /\ LET score == count_stones(cells)
         black == score[1]
         white == score[2]
     IN result' = IF black > white THEN "Black wins!"
                  ELSE IF white > black THEN "White wins!"
                  ELSE "It's a tie!"
  /\ pc' = "exit"
  /\ step' = "announce"
  /\ last' = NoCall
  /\ prev' = cells
  /\ prev_player' = current_player
  /\ UNCHANGED <<cells, current_player, input, book, moves>>

Next ==
  \/ LoopTop
  \/ \E line \in Lines[book] : ReadLine(line)
  \/ Announce

Spec == Init /\ [][Next]_vars

\* ------------------------------------------------ the driver, a whole game

\* A game of 60 moves from Board::new(), with two skipped turns, that fills
\* the grid.
FullGame ==
  <<
     <<2, 3>>, <<2, 2>>, <<2, 1>>, <<2, 4>>, <<2, 5>>, <<4, 2>>,
     <<5, 5>>, <<1, 6>>, <<4, 1>>, <<5, 2>>, <<3, 5>>, <<4, 0>>,
     <<0, 7>>, <<4, 5>>, <<5, 3>>, <<6, 4>>, <<6, 3>>, <<5, 4>>,
     <<7, 3>>, <<3, 2>>, <<6, 2>>, <<6, 1>>, <<7, 0>>, <<5, 1>>,
     <<3, 0>>, <<7, 5>>, <<3, 6>>, <<3, 1>>, <<7, 4>>, <<2, 0>>,
     <<6, 0>>, <<4, 6>>, <<7, 6>>, <<1, 2>>, <<3, 7>>, <<2, 6>>,
     <<1, 0>>, <<2, 7>>, <<0, 2>>, <<0, 3>>, <<1, 3>>, <<0, 4>>,
     <<0, 5>>, <<6, 5>>, <<5, 0>>, <<5, 7>>, <<1, 4>>, <<7, 1>>,
     <<6, 6>>, <<7, 2>>, <<4, 7>>, <<5, 6>>, <<1, 7>>, <<6, 7>>,
     <<7, 7>>, <<0, 6>>, <<1, 1>>, <<1, 5>>, <<0, 0>>, <<0, 1>> >>

\* What the user may type once k moves have been made: the next move of the
\* game, a line that is no input and a move on an Occupied cell.
ScriptLines(k) ==
  {<<Tok(FullGame[i][1]), Tok(FullGame[i][2])>> : i \in {k + 1} \cap DOMAIN FullGame}
    \cup { << <<"x">> >>, << <<"4">>, <<"4">> >> }

LiveInit == Init /\ book = 1

LiveNext ==
  \/ LoopTop
  \/ \E line \in ScriptLines(moves) : ReadLine(line)
  \/ Announce

\* The program runs on whenever it can (weak fairness of its own steps); a
\* user who is prompted again and again enters, again and again, a line that
\* make_move accepts: strong fairness of the legal move, which is possible
\* at every prompt, written out with the prompt for its enabling condition.
LiveFairness ==
  /\ WF_vars(LoopTop)
  /\ WF_vars(Announce)
  /\ ([]<>(pc = "read") => []<>(step = "move" /\ last.called /\ last.ret))

LiveSpec == LiveInit /\ [][LiveNext]_vars /\ LiveFairness

\* ------------------------------------------- the loop top on any Board value

\* Values of Board beyond those a game reaches: a grid filled with one Cell
\* value, with a patch of at most MaxRun cells laid from an anchor cell (a
\* corner or (3, 3)) along a direction; the part of the patch that leaves
\* the grid is dropped.
Anchors == ({0, N - 1} \X {0, N - 1}) \cup {<<3, 3>>}
Patches == UNION { [1..n -> Cell] : n \in 1..MaxRun }

Patched(fill, a, d, patch) ==
  [r \in Idx |-> [c \in Idx |->
     IF \E i \in DOMAIN patch : r = a[1] + (i - 1) * d[1] /\ c = a[2] + (i - 1) * d[2]
     THEN patch[CHOOSE i \in DOMAIN patch :
                  r = a[1] + (i - 1) * d[1] /\ c = a[2] + (i - 1) * d[2]]
     ELSE fill]]

Grids ==
  { Patched(fill, a, Dirs[i], patch) :
      fill \in Cell, a \in Anchors, i \in DOMAIN Dirs, patch \in Patches }

GridInit ==
  /\ cells \in Grids
  /\ current_player \in Player
  /\ input = <<>>
  /\ result = "none"
  /\ pc = "loop"
  /\ book = 1
  /\ moves = 0
  /\ step = "init"
  /\ last = NoCall
  /\ prev = cells
  /\ prev_player = current_player

\* One iteration up to the prompt, or the break and what follows the loop.
GridNext ==
  \/ LoopTop
  \/ Announce

GridSpec == GridInit /\ [][GridNext]_vars

\* ------------------------------------------------- vocabulary of the claims

Cells2 == Idx \X Idx

\* The cell at (r, c), or "OffBoard".
At(b, r, c) == IF InGrid(r, c) THEN b[r][c] ELSE "OffBoard"

OccupiedCount(b) == Cardinality({rc \in Cells2 : b[rc[1]][rc[2]] # Empty})
StonesOf(b, p) == Cardinality({rc \in Cells2 : b[rc[1]][rc[2]] = Occupied(p)})

\* The 8 compass directions, as a set.
Compass == {d \in {-1, 0, 1} \X {-1, 0, 1} : d # <<0, 0>>}

\* From (r, c) along d: exactly k >= 1 opponent stones, then a stone of p.
Bracket(b, r, c, d, p, k) ==
  /\ \A i \in 1..k : At(b, r + i * d[1], c + i * d[2]) = Occupied(opponent(p))
  /\ At(b, r + (k + 1) * d[1], c + (k + 1) * d[2]) = Occupied(p)

\* The cells p captures by a stone at (r, c): the bracketed runs of all
\* directions.
Captured(b, r, c, p) ==
  UNION { {<<r + i * dk[1][1], c + i * dk[1][2]>> : i \in 1..dk[2]} :
          dk \in {x \in Compass \X (1..(N - 2)) : Bracket(b, r, c, x[1], p, x[2])} }

\* The grid a legal move of p at (r, c) must leave.
ExpectedAfter(b, r, c, p) ==
  LET cap == Captured(b, r, c, p)
  IN [rr \in Idx |-> [cc \in Idx |->
        IF (rr = r /\ cc = c) \/ <<rr, cc>> \in cap THEN Occupied(p)
        ELSE b[rr][cc]]]

\* The cells whose value the latest step changed.
Changed == {rc \in Cells2 : cells[rc[1]][rc[2]] # prev[rc[1]][rc[2]]}

\* ------------------------------------------------------------------ claims

\* C1: whenever is_valid_move(row, col, player) is false on the grid before a
\* make_move(row, col, player) call, the call returns false and leaves every
\* one of the 64 cells as it was.
C1_IllegalMoveNoEffect ==
  (last.called /\ ~is_valid_move(prev, last.r, last.c, last.player))
     => (~last.ret /\ cells = prev)

\* A make_move on an in-range Empty cell next to an opponent stone was refused.
C1_Witness ==
  /\ last.called /\ ~last.ret
  /\ InGrid(last.r, last.c) /\ prev[last.r][last.c] = Empty
  /\ \E d \in Compass :
       At(prev, last.r + d[1], last.c + d[2]) = Occupied(opponent(last.player))
  /\ moves >= 1

\* C2: is_valid_move(row, col, player) is true exactly when (row, col) is in
\* [0,7]x[0,7], the cell is Empty and one of the 8 directions passes the
\* capture test; a move reported legal brackets at least one opponent stone.
C2_ValidIffCapture ==
  pc = "caller" =>
    \A r \in Coords, c \in Coords, p \in Player :
       /\ is_valid_move(cells, r, c, p)
            <=> /\ r \in Idx /\ c \in Idx
                /\ cells[r][c] = Empty
                /\ \E d \in Compass : can_flip_in_direction(cells, r, c, d[1], d[2], p)
       /\ is_valid_move(cells, r, c, p)
            => \E d \in Compass, k \in 1..(N - 2) : Bracket(cells, r, c, d, p, k)

\* A grid left by a make_move call on which p has a legal move only through
\* the last direction (1, 1), and an Empty cell next to an opponent stone
\* that is not legal.
C2_Witness ==
  /\ pc = "caller" /\ step = "return"
  /\ \E r \in Idx, c \in Idx, p \in Player :
       /\ is_valid_move(cells, r, c, p)
       /\ \A d \in Compass :
            can_flip_in_direction(cells, r, c, d[1], d[2], p) => d = <<1, 1>>
  /\ \E r \in Idx, c \in Idx, p \in Player :
       /\ cells[r][c] = Empty
       /\ ~is_valid_move(cells, r, c, p)
       /\ \E d \in Compass : At(cells, r + d[1], c + d[2]) = Occupied(opponent(p))

\* C3: after a make_move that returned true the grid is the grid before it
\* with the target cell and every bracketed opponent run owned by the mover,
\* and every other cell (the bracketing stones included) as before.
C3_MoveEffect ==
  (last.called /\ last.ret)
     => cells = ExpectedAfter(prev, last.r, last.c, last.player)

\* A move that flipped stones in two directions while an opponent stone next
\* to the target, in a direction that does not capture, stayed.
C3_Witness ==
  /\ last.called /\ last.ret
  /\ Cardinality({d \in Compass :
        \E k \in 1..(N - 2) : Bracket(prev, last.r, last.c, d, last.player, k)}) >= 2
  /\ \E d \in Compass :
       /\ At(prev, last.r + d[1], last.c + d[2]) = Occupied(opponent(last.player))
       /\ At(cells, last.r + d[1], last.c + d[2]) = Occupied(opponent(last.player))

\* C4: from Board::new(), the number of Occupied cells grows by exactly 1 on
\* a make_move call that returns true, is unchanged on one that returns
\* false, never decreases and never exceeds 64.
C4_OccupancyMonotone ==
  LET after  == OccupiedCount(cells)
      before == OccupiedCount(prev)
  IN /\ last.called => after = before + (IF last.ret THEN 1 ELSE 0)
     /\ after >= before
     /\ after = OccupiedCount(new) + moves
     /\ after <= N * N

\* A successful move that flipped three stones or more: one more cell is
\* occupied, four or more changed.
C4_Witness ==
  /\ last.called /\ last.ret
  /\ OccupiedCount(cells) = OccupiedCount(prev) + 1
  /\ Cardinality(Changed) >= 4

\* C5: is_valid_move is false for every (row, col) outside [0,7]x[0,7] and
\* for every Occupied cell, whatever lies along the 8 directions; so a
\* successful make_move has placed its stone on an in-grid Empty cell.
C5_OutOfRangeOrOccupied ==
  /\ pc = "caller" =>
       \A r \in Coords, c \in Coords, p \in Player :
          (~InGrid(r, c) \/ cells[r][c] # Empty) => ~is_valid_move(cells, r, c, p)
  /\ (last.called /\ last.ret) =>
       (InGrid(last.r, last.c) /\ prev[last.r][last.c] = Empty)

\* make_move was refused on an Occupied cell from which a direction brackets
\* opponent stones, and (another state) on a cell outside the grid.
C5_Witness ==
  /\ last.called /\ ~last.ret
  /\ InGrid(last.r, last.c) /\ prev[last.r][last.c] # Empty
  /\ \E d \in Compass, k \in 1..(N - 2) :
       Bracket(prev, last.r, last.c, d, last.player, k)

\* A line was read in the latest step: `input` is that line.
LineRead == step \in {"reject", "move"}

\* The line rejected: no make_move call, grid and player as before, and the
\* next iteration prompts the same player.
Rejected ==
  /\ ~last.called
  /\ cells = prev
  /\ current_player = prev_player
  /\ pc = "loop"
  /\ has_valid_move(cells, current_player)

\* The tokens of a line that are no i32.
NonNumeric(line) == {i \in 1..Len(line) : ~parse(line[i]).ok}

\* C6 as stated: a line that holds a non-numeric token, or whose token count
\* is not two, is rejected before any make_move call.  The code drops the
\* tokens that do not parse and counts the rest: "5 x 4" plays (5, 4).
C6_Original ==
  (LineRead /\ (NonNumeric(input) # {} \/ Len(input) # 2)) => Rejected

\* C6, amended: a line is rejected before any make_move call when the number
\* of its tokens that parse as i32 is not two; grid and player are unchanged
\* and the same player is prompted again.  A line with exactly two such
\* tokens reaches make_move, whatever other tokens it holds.
C6_Amended ==
  LineRead =>
    /\ Cardinality(1..Len(input) \ NonNumeric(input)) # 2 => Rejected
    /\ Cardinality(1..Len(input) \ NonNumeric(input)) = 2 => last.called

\* After a first move, a line of two tokens of which one is no number was
\* rejected.
C6_Witness ==
  /\ step = "reject"
  /\ Len(input) = 2
  /\ Cardinality(NonNumeric(input)) = 1
  /\ moves >= 1

\* C7: the loop is left only on a grid where neither player has a move; on
\* such a grid the top of the loop breaks, nobody is prompted and make_move
\* is not called; the winner printed is the one count_stones decides.
C7_GameOver ==
  LET dead(b) == ~has_valid_move(b, Black) /\ ~has_valid_move(b, White)
  IN /\ pc \in {"over", "exit"} => dead(cells)
     /\ step \in {"pass", "prompt"} => ~dead(prev)
     /\ step = "break" => (dead(prev) /\ cells = prev /\ pc = "over")
     /\ pc = "read" => has_valid_move(cells, current_player)
     /\ last.called => has_valid_move(prev, prev_player)
     /\ pc = "exit" <=> result # "none"
     /\ pc = "exit" =>
          /\ result \in {"Black wins!", "White wins!", "It's a tie!"}
          /\ result = "Black wins!" <=> StonesOf(cells, Black) > StonesOf(cells, White)
          /\ result = "White wins!" <=> StonesOf(cells, White) > StonesOf(cells, Black)
          /\ result = "It's a tie!" <=> StonesOf(cells, Black) = StonesOf(cells, White)

\* The game ended with a winner announced, on a grid with Empty cells left.
C7_Witness ==
  /\ pc = "exit"
  /\ result = "Black wins!"
  /\ OccupiedCount(cells) < N * N
  /\ moves >= 1

\* The latest step found, on the grid before it, no move for the player to
\* move and a move for the opponent, and called nothing.
Passed ==
  /\ step # "init"
  /\ ~last.called
  /\ ~has_valid_move(prev, prev_player)
  /\ has_valid_move(prev, opponent(prev_player))

\* C8: the current player changes, and then to the opponent, exactly after a
\* make_move that returned true and on a pass; a pass places no stone and
\* leaves the grid; a make_move that returned false leaves player and grid.
C8_TurnChange ==
  /\ current_player # prev_player <=> ((last.called /\ last.ret) \/ Passed)
  /\ current_player # prev_player => current_player = opponent(prev_player)
  /\ Passed => cells = prev
  /\ (last.called /\ ~last.ret) => (current_player = prev_player /\ cells = prev)

\* A pass: Black had no move, White had one, and the turn went to White.
C8_Witness ==
  /\ Passed
  /\ step = "pass"
  /\ prev_player = Black
  /\ current_player = White
  /\ cells = prev

\* C9: on Board::new(), make_move(2, 3, Black) returns true, (2,3) becomes
\* Black, (3,3) flips from White to Black, (3,4), (4,3), (4,4) stay, 5 cells
\* are occupied and count_stones() is (4, 1).
C9_Opening ==
  (last.called /\ prev = new /\ last.r = 2 /\ last.c = 3 /\ last.player = Black)
    => /\ last.ret
       /\ cells[2][3] = Occupied(Black)
       /\ prev[3][3] = Occupied(White) /\ cells[3][3] = Occupied(Black)
       /\ cells[3][4] = prev[3][4] /\ cells[4][3] = prev[4][3] /\ cells[4][4] = prev[4][4]
       /\ OccupiedCount(cells) = 5
       /\ count_stones(cells) = <<4, 1>>

\* Black has just played (2, 3) on the fresh board.
C9_Witness ==
  /\ last.called /\ last.ret
  /\ prev = new
  /\ last.r = 2 /\ last.c = 3 /\ last.player = Black
  /\ Changed = {<<2, 3>>, <<3, 3>>}

\* C10: Board::new() is the four centre stones, (3,3) and (4,4) White, (3,4)
\* and (4,3) Black, on an otherwise Empty grid, where count_stones() is
\* (2, 2); on every grid count_stones() is (Black cells, White cells).
C10_NewAndCount ==
  /\ (step = "init" /\ moves = 0) =>
       /\ cells[3][3] = Occupied(White) /\ cells[4][4] = Occupied(White)
       /\ cells[3][4] = Occupied(Black) /\ cells[4][3] = Occupied(Black)
       /\ \A rc \in Cells2 \ {<<3, 3>>, <<3, 4>>, <<4, 3>>, <<4, 4>>} :
            cells[rc[1]][rc[2]] = Empty
       /\ OccupiedCount(cells) = 4
       /\ count_stones(cells) = <<2, 2>>
  /\ pc = "caller" =>
       count_stones(cells) = <<StonesOf(cells, Black), StonesOf(cells, White)>>

\* A grid with a stone in the first column on which White has more stones
\* than Black, and count_stones() says so.
C10_Witness ==
  /\ pc = "caller"
  /\ \E r \in Idx : cells[r][0] # Empty
  /\ count_stones(cells)[2] > count_stones(cells)[1]

\* C11: has_valid_move(player) is true exactly when is_valid_move holds for
\* one of the 64 cells, and false exactly when make_move would return false
\* for that player at every cell.
C11_HasValidMove ==
  step # "init" =>
    \A p \in Player :
       LET h == has_valid_move(cells, p)
       IN /\ h <=> \E rc \in Cells2 : is_valid_move(cells, rc[1], rc[2], p)
          /\ ~h <=> \A rc \in Cells2 : ~make_move(cells, rc[1], rc[2], p).ret

\* The loop top found a move for the current player whose only legal cell
\* is the last one scanned, (7, 7).
C11_Witness ==
  /\ step = "prompt"
  /\ {rc \in Cells2 : is_valid_move(cells, rc[1], rc[2], current_player)}
       = {<<N - 1, N - 1>>}

\* C12: opponent is total on Player, has no fixed point and is its own
\* inverse: opponent(Black) = White, opponent(White) = Black and
\* opponent(opponent(p)) = p; a turn the driver hands over goes to the other
\* player and would come back by a second hand-over.
C12_OpponentInvolution ==
  /\ opponent(Black) = White
  /\ opponent(White) = Black
  /\ \A p \in Player :
       /\ opponent(p) \in Player
       /\ opponent(p) # p
       /\ opponent(opponent(p)) = p
  /\ current_player # prev_player =>
       /\ current_player = opponent(prev_player)
       /\ opponent(current_player) = prev_player

\* White has moved and the turn is back with Black: the driver has applied
\* opponent to both players.
C12_Witness ==
  /\ step = "move" /\ last.called /\ last.ret
  /\ prev_player = White
  /\ current_player = opponent(White)
  /\ current_player = Black

\* The first step from (r, c) along d at which the cell is not the opponent's
\* (step N is off the grid from every origin).
RunEnd(b, r, c, d, p) ==
  LET stops == {j \in 1..N : At(b, r + j * d[1], c + j * d[2]) # Occupied(opponent(p))}
  IN CHOOSE j \in stops : \A i \in stops : j <= i

\* From (r, c) along d: exactly k >= 1 opponent stones, then `end`.
RunThen(b, r, c, d, p, k, end) ==
  /\ RunEnd(b, r, c, d, p) = k + 1
  /\ At(b, r + (k + 1) * d[1], c + (k + 1) * d[2]) = end

\* C13: can_flip_in_direction is true exactly when, for some k >= 1, the k
\* cells after the origin along the direction are in the grid and the
\* opponent's and the next one is in the grid and the player's; it is false
\* when the first cell is off the grid or Empty, when the player's own stone
\* is next to the origin, and when the opponent run ends at an Empty cell or
\* at the edge.
C13_CaptureTest ==
  step \in {"prompt", "pass", "break"} =>
    LET p == prev_player
    IN \A r \in Idx, c \in Idx, d \in Compass :
         LET can  == can_flip_in_direction(cells, r, c, d[1], d[2], p)
             k    == RunEnd(cells, r, c, d, p) - 1
             stop == At(cells, r + (k + 1) * d[1], c + (k + 1) * d[2])
         IN /\ can <=> \E n \in 1..(N - 2) : Bracket(cells, r, c, d, p, n)
            /\ k = 0 => (stop \in {"OffBoard", Empty, Occupied(p)} /\ ~can)
            /\ (k >= 1 /\ stop \in {"OffBoard", Empty}) => ~can
            /\ (k >= 1 /\ stop = Occupied(p)) => can

\* The loop top has tested a grid on which, for the player tested, one
\* Empty origin captures along a direction, and from other origins an
\* opponent run ends at the edge, another ends at an Empty cell, and the
\* player's own stone is adjacent.
C13_Witness ==
  /\ step \in {"prompt", "pass", "break"}
  /\ \E r \in Idx, c \in Idx, d \in Compass :
       /\ cells[r][c] = Empty
       /\ can_flip_in_direction(cells, r, c, d[1], d[2], prev_player)
  /\ \E r \in Idx, c \in Idx, d \in Compass, k \in 1..(N - 1) :
       RunThen(cells, r, c, d, prev_player, k, "OffBoard")
  /\ \E r \in Idx, c \in Idx, d \in Compass, k \in 1..(N - 1) :
       RunThen(cells, r, c, d, prev_player, k, Empty)
  /\ \E r \in Idx, c \in Idx, d \in Compass :
       /\ cells[r][c] = Empty
       /\ At(cells, r + d[1], c + d[2]) = Occupied(prev_player)

\* A player has no stone on the grid; no cell of the grid is Empty.
Wiped(b) == \E p \in Player : \A rc \in Cells2 : b[rc[1]][rc[2]] # Occupied(p)
Full(b) == \A rc \in Cells2 : b[rc[1]][rc[2]] # Empty

\* C20: on a grid where a player has no stone (the empty grid and the full
\* grid of one colour included) and on a grid without an Empty cell,
\* has_valid_move is false for both players, and the loop top on such a grid
\* breaks: game over, nobody passes or is prompted.
C20_WipedOrFull ==
  /\ (Wiped(cells) \/ Full(cells)) =>
       (~has_valid_move(cells, Black) /\ ~has_valid_move(cells, White))
  /\ (step \in {"prompt", "pass", "break"} /\ (Wiped(prev) \/ Full(prev))) =>
       (step = "break" /\ pc = "over" /\ ~last.called /\ cells = prev)

\* The loop top broke on a grid where White has no stone and an Empty cell
\* lies next to a Black stone.
C20_Witness ==
  /\ step = "break"
  /\ StonesOf(cells, White) = 0
  /\ StonesOf(cells, Black) > 0
  /\ \E rc \in Cells2, d \in Compass :
       /\ cells[rc[1]][rc[2]] = Empty
       /\ At(cells, rc[1] + d[1], rc[2] + d[2]) = Occupied(Black)

\* The directions that capture for a stone of p at (r, c), decided on grid b.
Capturing(b, r, c, p) ==
  {i \in DOMAIN Dirs : can_flip_in_direction(b, r, c, Dirs[i][1], Dirs[i][2], p)}

\* The reference: grid b with the directions of `caps` flipped, from the
\* i-th direction on, no capture test being made on the way.
RECURSIVE flip_all(_, _, _, _, _, _)
flip_all(b, caps, r, c, p, i) ==
  IF i > Len(Dirs) THEN b
  ELSE flip_all(IF i \in caps
                THEN flip_in_direction(b, r, c, Dirs[i][1], Dirs[i][2], p)
                ELSE b,
                caps, r, c, p, i + 1)

\* C14: a make_move that returned true leaves the grid of the reference that
\* decides the capturing directions on the grid before the move and then
\* flips them all; neither the placement nor the flips of one direction
\* change the capture test of another direction (a flipped direction itself
\* no longer captures).
C14_SequentialEqualsReference ==
  (last.called /\ last.ret) =>
    LET r == last.r
        c == last.c
        p == last.player
        placed == [prev EXCEPT ![r][c] = Occupied(p)]
        caps == Capturing(prev, r, c, p)
    IN /\ cells = flip_all(placed, caps, r, c, p, 1)
       /\ Capturing(placed, r, c, p) = caps
       /\ \A i \in caps :
            Capturing(flip_in_direction(placed, r, c, Dirs[i][1], Dirs[i][2], p),
                      r, c, p) = caps \ {i}
       /\ Capturing(cells, r, c, p) = {}

\* A move that captured along two directions or more, three stones or more.
C14_Witness ==
  /\ last.called /\ last.ret
  /\ Cardinality(Capturing(prev, last.r, last.c, last.player)) >= 2
  /\ Cardinality(Changed) >= 4
  /\ cells = flip_all([prev EXCEPT ![last.r][last.c] = Occupied(last.player)],
                      Capturing(prev, last.r, last.c, last.player),
                      last.r, last.c, last.player, 1)

\* C15: in any sequence of make_move calls from Board::new() a cell that is
\* Occupied never becomes Empty; a cell goes from Empty to Occupied(p) only
\* as the target of a make_move by p that returned true; an Occupied cell
\* changes owner only from the opponent to the player of a make_move that
\* returned true.
C15_CellTransitions ==
  \A rc \in Cells2 :
     LET before == prev[rc[1]][rc[2]]
         after  == cells[rc[1]][rc[2]]
     IN /\ before # Empty => after # Empty
        /\ (before = Empty /\ after # Empty) =>
             /\ last.called /\ last.ret
             /\ rc = <<last.r, last.c>>
             /\ after = Occupied(last.player)
        /\ (before # Empty /\ after # before) =>
             /\ last.called /\ last.ret
             /\ rc # <<last.r, last.c>>
             /\ before = Occupied(opponent(last.player))
             /\ after = Occupied(last.player)

\* A move placed a stone on an Empty cell and changed the owner of a stone
\* on a cell that was Empty on the fresh board: that cell has gone from
\* Empty to Occupied and on to the other owner.
C15_Witness ==
  /\ last.called /\ last.ret
  /\ prev[last.r][last.c] = Empty
  /\ cells[last.r][last.c] = Occupied(last.player)
  /\ \E rc \in Changed :
       /\ new[rc[1]][rc[2]] = Empty
       /\ prev[rc[1]][rc[2]] = Occupied(opponent(last.player))
       /\ cells[rc[1]][rc[2]] = Occupied(last.player)

\* Coordinates at the ends of i32 and around the grid.
I32Coords == {0 - I32Max - 1, I32Max} \cup Coords

\* C16: is_valid_move, make_move, has_valid_move and count_stones index the
\* grid only at rows and columns in [0,7], for any i32 arguments, so none of
\* them aborts; a call with an argument out of range is answered false with
\* no cell indexed and the grid untouched.
C16_NoAbort ==
  /\ last.called =>
       /\ make_move_indexed(prev, last.r, last.c, last.player) \subseteq Cells2
       /\ is_valid_move_indexed(prev, last.r, last.c, last.player) \subseteq Cells2
  /\ pc = "caller" =>
       /\ \A p \in Player : has_valid_move_indexed(cells, p) \subseteq Cells2
       /\ count_stones_indexed \subseteq Cells2
       /\ \A r \in I32Coords, c \in I32Coords, p \in Player :
            ~InGrid(r, c) =>
              /\ ~is_valid_move(cells, r, c, p)
              /\ is_valid_move_indexed(cells, r, c, p) = {}
              /\ make_move(cells, r, c, p) = [ret |-> FALSE, cells |-> cells]
              /\ make_move_indexed(cells, r, c, p) = {}

\* A make_move returned true from a target whose walk along one direction
\* ran over opponent stones up to the edge of the grid, and indexed the
\* edge cell.
C16_Witness ==
  /\ last.called /\ last.ret
  /\ \E d \in Compass, k \in 1..(N - 1) :
       /\ RunThen(prev, last.r, last.c, d, last.player, k, "OffBoard")
       /\ <<last.r + k * d[1], last.c + k * d[2]>>
            \in make_move_indexed(prev, last.r, last.c, last.player)

\* The entry of a count_stones() tuple that counts the stones of p.
CountOf(score, p) == IF p = Black THEN score[1] ELSE score[2]

\* C17: a make_move that returned true flipped k >= 1 opponent stones: by
\* count_stones() before and after, the mover has 1 + k stones more and the
\* opponent k stones fewer, so the mover gains 2 or more and the opponent
\* loses 1 or more.
C17_MoveFlips ==
  (last.called /\ last.ret) =>
    LET before == count_stones(prev)
        after  == count_stones(cells)
        k == CountOf(before, opponent(last.player)) - CountOf(after, opponent(last.player))
    IN /\ k >= 1
       /\ CountOf(after, last.player) = CountOf(before, last.player) + 1 + k
       /\ CountOf(after, last.player) >= CountOf(before, last.player) + 2
       /\ CountOf(after, opponent(last.player)) <= CountOf(before, opponent(last.player)) - 1
       /\ Cardinality(Changed) = 1 + k

\* White moved and flipped exactly two Black stones: White has three stones
\* more, Black two fewer.
C17_Witness ==
  /\ last.called /\ last.ret
  /\ last.player = White
  /\ count_stones(cells)[2] = count_stones(prev)[2] + 3
  /\ count_stones(cells)[1] = count_stones(prev)[1] - 2

\* C18: a pass is never followed by another pass: after the driver has
\* skipped the turn of a player without a move, the new current player has a
\* move and the next iteration prompts that player, the grid untouched.
C18_NoDoublePass ==
  /\ [](step = "pass" =>
          (pc = "loop" /\ cells = prev /\ has_valid_move(cells, current_player)))
  /\ [][step = "pass" =>
          (step' = "prompt" /\ pc' = "read" /\ ~last'.called
           /\ current_player' = current_player /\ cells' = cells)]_vars

\* The driver has skipped a turn in the course of a game: the player skipped
\* has no move, the player now to move has one.
C18_Witness ==
  /\ step = "pass" /\ pc = "loop"
  /\ moves >= 1
  /\ ~has_valid_move(cells, opponent(current_player))
  /\ has_valid_move(cells, current_player)

\* C19: a run of the driver holds at most 60 make_move calls that return
\* true, each of them filling one more of the 64 cells; if the user, when
\* prompted, eventually enters a legal move, the driver eventually leaves
\* the loop and prints the final score.
C19_Terminates ==
  /\ [](/\ moves <= N * N - OccupiedCount(new)
        /\ moves = OccupiedCount(cells) - OccupiedCount(new)
        /\ N * N - OccupiedCount(new) = 60)
  /\ <>(pc = "exit" /\ result # "none")

\* The game is over after 60 moves on a full grid, White announced winner.
C19_Witness ==
  /\ pc = "exit"
  /\ moves = 60
  /\ Full(cells)
  /\ result = "White wins!"

====
